---- MODULE Spec2Model ----
(***************************************************************************)
(* HeroSection.jsx: a React function component with three pieces of local  *)
(* state (statistics, loading, error), one effect keyed on the             *)
(* initialStatistics prop, an async fetchStatistics handler and a          *)
(* three-way conditional render.                                           *)
(*                                                                         *)
(* JavaScript values are tagged records so that truthiness is computed as  *)
(* the language computes it.  State updates issued in one synchronous run  *)
(* of a handler or of one promise continuation are committed together      *)
(* (automatic batching), so every action is one such run and the rendered  *)
(* output is a function of the committed state and the current props.      *)
(***************************************************************************)
EXTENDS Integers, Sequences, FiniteSets, TLC

\* ---------------------------------------------------------------- bounds
MaxRequests == 3
MaxDogs == 5

\* ------------------------------------------------------------- JS values
Null == [type |-> "null"]

Str(s) == [type |-> "string", value |-> s]

Truthy(v) ==
    CASE v.type = "null" -> FALSE
      [] v.type = "string" -> v.value # ""
      [] OTHER -> TRUE

\* What getStatistics() may resolve with: an object with total_dogs,
\* total_organizations and an array of countries.
StatisticsObject(dogs, organizations, countries) ==
    [type |-> "object", total_dogs |-> dogs, total_organizations |-> organizations,
     countries |-> countries]

Statistics ==
    { StatisticsObject(12, 3, <<"CA", "US", "MX">>), StatisticsObject(7, 2, <<"CA", "CA">>) }

\* What getStatistics() may reject with: an error carrying a message.
RawMessages == {"Network Error", "HTTP 500"}

\* Values the parent may pass as initialStatistics (undefined becomes null
\* through the default parameter).
InitialStatisticsValues == {Null} \cup Statistics

\* Lists the parent may pass as previewDogs: records with an id, in
\* ascending or descending id order.
Ascending(n) == [i \in 1..n |-> [id |-> i]]

Descending(n) == [i \in 1..n |-> [id |-> n + 1 - i]]

PreviewDogLists ==
    { Ascending(n) : n \in 0..MaxDogs } \cup { Descending(n) : n \in 2..MaxDogs }

\* ------------------------------------------------------------- constants
PreviewLimit == 3

ErrorLabel == "Error fetching statistics"

ErrorText == "Unable to load statistics. Please try again later."


VARIABLES
    initialStatistics,  \* prop
    previewDogs,        \* prop
    statistics,         \* useState
    loading,            \* useState
    error,              \* useState
    effectPending,      \* the effect is scheduled and has not run yet
    issued,             \* number of getStatistics() calls made so far
    inFlight,           \* getStatistics() calls not yet settled, by call number
    reports,            \* reportError() calls, in order
    mountProps,         \* history: initialStatistics at mount
    mounted,            \* history: the mount's effect has run
    mountRequests,      \* history: getStatistics() calls made by the mount's effect
    firstRender,        \* history: the panels of the first render
    events,             \* history: the external events so far
    lastStored          \* history: the statistics object last handed to the component

vars == <<initialStatistics, previewDogs, statistics, loading, error, effectPending,
          issued, inFlight, reports, mountProps, mounted, mountRequests, firstRender,
          events, lastStored>>

\* --------------------------------------------------------------- useState
StatisticsInitial(init) == init

\* Variant: the loading flag starts set whatever the props are.
LoadingInitial_AlwaysLoading(init) == TRUE

LoadingInitial(init) == ~Truthy(init)

ErrorInitial == Null

\* ------------------------------------------------------------- rendering
Min(a, b) == IF a < b THEN a ELSE b

\* Array.prototype.slice(start, end) for 0 <= start <= end.
Slice(arr, start, end) ==
    [i \in 1..(Min(end, Len(arr)) - Min(start, Len(arr))) |-> arr[Min(start, Len(arr)) + i]]

CardPriority(index) == index = 0

\* Variant: the slice keeps two entries.
PreviewSlice_Two(dogs) == Slice(dogs, 0, 2)

PreviewSlice(dogs) == Slice(dogs, 0, PreviewLimit)

\* .map((dog, index) => <HeroDogPreviewCard key dog index priority />)
PreviewCards(dogs) ==
    [i \in 1..Len(PreviewSlice(dogs)) |->
        [key |-> PreviewSlice(dogs)[i].id,
         dog |-> PreviewSlice(dogs)[i],
         index |-> i - 1,
         priority |-> CardPriority(i - 1)]]

\* Variant: the third counter counts the distinct countries.
Counters_Distinct(stats) ==
    <<stats.total_dogs, stats.total_organizations,
      Cardinality({ stats.countries[i] : i \in 1..Len(stats.countries) })>>

\* The value props of the three AnimatedCounter elements.
Counters(stats) ==
    <<stats.total_dogs, stats.total_organizations, Len(stats.countries)>>

ShowLoading(st, ld, er) == ld

ShowError(st, ld, er) == Truthy(er)

\* Variant: the success view does not look at error.
ShowSuccess_IgnoreError(st, ld, er) == Truthy(st) /\ ~ld

ShowSuccess(st, ld, er) == Truthy(st) /\ ~ld /\ ~Truthy(er)

ShowCards(st, ld, er, dogs) == ShowSuccess(st, ld, er) /\ Len(dogs) > 0

\* Variant: the link is rendered outside the success view.
ShowFallbackLink_Everywhere(st, ld, er, dogs) == ~(Len(dogs) > 0)

ShowFallbackLink(st, ld, er, dogs) == ShowSuccess(st, ld, er) /\ ~(Len(dogs) > 0)

Panels(st, ld, er) ==
    [placeholder |-> ShowLoading(st, ld, er),
     errorPanel |-> ShowError(st, ld, er),
     success |-> ShowSuccess(st, ld, er)]

Render(st, ld, er, dogs) ==
    [placeholder |-> ShowLoading(st, ld, er),
     errorPanel |-> ShowError(st, ld, er),
     errorText |-> IF ShowError(st, ld, er) THEN er ELSE Null,
     retryControl |-> ShowError(st, ld, er),
     success |-> ShowSuccess(st, ld, er),
     counters |-> IF ShowSuccess(st, ld, er) THEN Counters(st) ELSE <<>>,
     cards |-> IF ShowCards(st, ld, er, dogs) THEN PreviewCards(dogs) ELSE <<>>,
     fallbackLink |-> ShowFallbackLink(st, ld, er, dogs)]

View == Render(statistics, loading, error, previewDogs)

\* ------------------------------------------------------- fetchStatistics
\* Up to the await: setLoading(true); setError(null).
LoadingOnStart == TRUE

\* Variant: starting a fetch leaves error as it is.
ErrorOnStart_Keep == error

ErrorOnStart == Null

\* After the await resolved: setStatistics(stats).
StatisticsOnResolve(stats) == stats

\* catch: reportError(label, {error: err.message}); setError(text).
\* Variant: the report carries the text shown to the user.
ReportOnReject_Text(msg) == [label |-> ErrorLabel, error |-> ErrorText]

ReportOnReject(msg) == [label |-> ErrorLabel, error |-> msg]

ErrorOnReject(msg) == Str(ErrorText)

\* finally: setLoading(false).
LoadingOnSettle == FALSE

\* --------------------------------------------------------------- useEffect
DepsChanged(old, new) == old # new

\* Variant: the effect fetches whatever the prop is.
EffectFetches_Always(init) == TRUE

EffectFetches(init) == ~Truthy(init)

\* ------------------------------------------------------------------- Init
NoEvents == [retries |-> 0, falsyChanges |-> 0, resolved |-> 0, rejected |-> <<>>]

Init ==
    /\ initialStatistics \in InitialStatisticsValues
    /\ previewDogs \in PreviewDogLists
    /\ statistics = StatisticsInitial(initialStatistics)
    /\ loading = LoadingInitial(initialStatistics)
    /\ error = ErrorInitial
    /\ effectPending = TRUE
    /\ issued = 0
    /\ inFlight = {}
    /\ reports = <<>>
    /\ mountProps = initialStatistics
    /\ mounted = FALSE
    /\ mountRequests = 0
    /\ firstRender = Panels(statistics, loading, error)
    /\ events = NoEvents
    /\ lastStored = initialStatistics

\* ---------------------------------------------------------------- actions
\* fetchStatistics() up to its await.
StartFetch ==
    /\ issued < MaxRequests
    /\ loading' = LoadingOnStart
    /\ error' = ErrorOnStart
    /\ issued' = issued + 1
    /\ inFlight' = inFlight \cup {issued + 1}
    /\ UNCHANGED <<statistics, reports, lastStored>>

\* The effect runs after the commit that scheduled it.
RunEffect ==
    /\ effectPending
    /\ effectPending' = FALSE
    /\ mounted' = TRUE
    /\ IF EffectFetches(initialStatistics)
         THEN /\ StartFetch
              /\ mountRequests' = IF mounted THEN mountRequests ELSE mountRequests + 1
         ELSE UNCHANGED <<statistics, loading, error, issued, inFlight, reports,
                          lastStored, mountRequests>>
    /\ UNCHANGED <<initialStatistics, previewDogs, mountProps, firstRender, events>>

\* The parent renders the component again with the given props.
Rerender(newInitial, newDogs) ==
    /\ ~effectPending
    /\ (newInitial # initialStatistics /\ newInitial = Null) => issued < MaxRequests
    /\ initialStatistics' = newInitial
    /\ previewDogs' = newDogs
    /\ effectPending' = DepsChanged(initialStatistics, newInitial)
    /\ events' = IF newInitial # initialStatistics /\ newInitial = Null
                   THEN [events EXCEPT !.falsyChanges = @ + 1] ELSE events
    /\ UNCHANGED <<statistics, loading, error, issued, inFlight, reports,
                   mountProps, mounted, mountRequests, firstRender, lastStored>>

\* The user clicks "Try again".
Retry ==
    /\ ~effectPending
    /\ View.retryControl
    /\ StartFetch
    /\ events' = [events EXCEPT !.retries = @ + 1]
    /\ UNCHANGED <<initialStatistics, previewDogs, effectPending, mountProps, mounted,
                   mountRequests, firstRender>>

\* getStatistics() call id resolves with stats.
Resolve(id, stats) ==
    /\ id \in inFlight
    /\ inFlight' = inFlight \ {id}
    /\ statistics' = StatisticsOnResolve(stats)
    /\ loading' = LoadingOnSettle
    /\ lastStored' = stats
    /\ events' = [events EXCEPT !.resolved = @ + 1]
    /\ UNCHANGED <<initialStatistics, previewDogs, error, effectPending, issued,
                   reports, mountProps, mounted, mountRequests, firstRender>>

\* getStatistics() call id rejects with an error whose message is msg.
Reject(id, msg) ==
    /\ id \in inFlight
    /\ inFlight' = inFlight \ {id}
    /\ reports' = Append(reports, ReportOnReject(msg))
    /\ error' = ErrorOnReject(msg)
    /\ loading' = LoadingOnSettle
    /\ events' = [events EXCEPT !.rejected = Append(@, msg)]
    /\ UNCHANGED <<initialStatistics, previewDogs, statistics, effectPending, issued,
                   mountProps, mounted, mountRequests, firstRender, lastStored>>

Next ==
    \/ RunEffect
    \/ \E i \in InitialStatisticsValues, d \in PreviewDogLists : Rerender(i, d)
    \/ Retry
    \/ \E id \in 1..MaxRequests, s \in Statistics : Resolve(id, s)
    \/ \E id \in 1..MaxRequests, m \in RawMessages : Reject(id, m)

Spec == Init /\ [][Next]_vars

\* ------------------------------------------------------------ properties
Settled == events.resolved + Len(events.rejected)

MountFetches == IF Truthy(mountProps) THEN 0 ELSE 1

ResolveStep == \E id \in 1..MaxRequests, s \in Statistics : Resolve(id, s)

RejectStep == \E id \in 1..MaxRequests, m \in RawMessages : Reject(id, m)

SuccessOnly == [placeholder |-> FALSE, errorPanel |-> FALSE, success |-> TRUE]

PanelCount(v) ==
    (IF v.placeholder THEN 1 ELSE 0) + (IF v.errorPanel THEN 1 ELSE 0)
        + (IF v.success THEN 1 ELSE 0)

\* C1: a mount with a truthy initialStatistics issues no request from its
\* effect, and its first render has loading false and shows the success view
\* alone.
C1_PrefetchedMount ==
    Truthy(mountProps) =>
        /\ mountRequests = 0
        /\ ~firstRender.placeholder
        /\ firstRender = SuccessOnly

C1_Witness ==
    /\ Truthy(mountProps)
    /\ mounted
    /\ mountRequests = 0
    /\ firstRender.success

\* C2 (as stated): after a mount without initialStatistics the placeholder is
\* rendered for as long as the mount's request (call 1) is outstanding, and
\* the step that settles it leaves loading and shows the success view if it
\* resolved, the error panel if it rejected.
C2_MountRequest ==
    [][ ~Truthy(mountProps) =>
          /\ 1 \in inFlight' => View'.placeholder
          /\ (\E s \in Statistics : Resolve(1, s)) => ~loading' /\ View'.success
          /\ (\E m \in RawMessages : Reject(1, m)) => ~loading' /\ View'.errorPanel ]_vars

\* C3: the step in which a request rejects ends with the error panel
\* rendered with the fixed text and the retry control; the retry control is
\* there whenever the error panel is, a click on it is possible, and the click
\* issues one new request, clears error and sets loading.
C3_RejectThenRetry ==
    /\ [](View.errorPanel => View.retryControl)
    /\ []((View.retryControl /\ ~effectPending /\ issued < MaxRequests) => ENABLED Retry)
    /\ [][ /\ RejectStep =>
                /\ View'.errorPanel
                /\ View'.errorText = Str(ErrorText)
                /\ View'.retryControl
           /\ Retry =>
                /\ issued' = issued + 1
                /\ inFlight' = inFlight \cup {issued'}
                /\ error' = Null
                /\ loading'
                /\ View'.placeholder /\ ~View'.errorPanel ]_vars

C3_Witness ==
    /\ Len(events.rejected) >= 2
    /\ events.retries >= 2
    /\ View.placeholder
    /\ inFlight # {}

\* C4 (as stated): once no effect is pending, the requests issued are one for
\* a mount without initialStatistics plus one per retry.
C4_MountAndRetryOnly ==
    ~effectPending => issued = MountFetches + events.retries

\* C4 (amended): once no effect is pending, the requests issued are one for a
\* mount without initialStatistics, plus one per retry, plus one per rerender
\* that changes initialStatistics to a falsy value.
C4_RequestCount ==
    ~effectPending => issued = MountFetches + events.retries + events.falsyChanges

C4_Witness ==
    /\ ~effectPending
    /\ events.retries > 0
    /\ events.falsyChanges > 0
    /\ MountFetches = 1

\* C5: with n >= 1 preview dogs and the success view displayed, the cards are
\* the first min(n, 3) dogs in order, each with its index, and only the card
\* of index 0 has priority.
C5_PreviewCards ==
    (Len(previewDogs) >= 1 /\ View.success) =>
        /\ Len(View.cards) = Min(Len(previewDogs), 3)
        /\ \A i \in 1..Len(View.cards) :
              /\ View.cards[i].dog = previewDogs[i]
              /\ View.cards[i].index = i - 1
              /\ View.cards[i].priority <=> (i = 1)
        /\ ~View.fallbackLink

C5_Witness ==
    /\ Len(previewDogs) = 5
    /\ events.resolved > 0
    /\ View.success
    /\ Len(View.cards) = 3
    /\ View.cards[1].dog.id = 5

\* C6 (as stated): with no preview dogs the fallback link is rendered, and no
\* card, in every state of the component.
C6_FallbackAlways ==
    Len(previewDogs) = 0 => View.fallbackLink /\ View.cards = <<>>

\* C6 (amended): with no preview dogs no card is rendered, and the fallback
\* link is rendered exactly when the success view is.
C6_FallbackInSuccess ==
    Len(previewDogs) = 0 =>
        /\ View.cards = <<>>
        /\ View.fallbackLink <=> View.success

C6_Witness ==
    /\ Len(previewDogs) = 0
    /\ events.resolved > 0
    /\ View.success
    /\ View.fallbackLink

\* C7: when the success view is displayed the counters are total_dogs,
\* total_organizations and the length of countries of the statistics object
\* stored last (the initial one or the last resolved result).
C7_Counters ==
    View.success =>
        View.counters = <<lastStored.total_dogs, lastStored.total_organizations,
                          Len(lastStored.countries)>>

C7_Witness ==
    /\ View.success
    /\ events.resolved > 0
    /\ Truthy(mountProps)
    /\ lastStored # mountProps
    /\ lastStored.countries = <<"CA", "CA">>

\* C8: once a request has settled exactly one of the three panels is
\* rendered, and with error and statistics both set it is the error panel.
C8_OnePanel ==
    Settled > 0 =>
        /\ PanelCount(View) = 1
        /\ (Truthy(error) /\ Truthy(statistics)) => View.errorPanel /\ ~View.success

C8_Witness ==
    /\ Settled > 0
    /\ Truthy(error)
    /\ Truthy(statistics)
    /\ ~loading

\* C9: the reports are, in order, one per rejection with the fixed label and
\* that rejection's raw message; the stored error is null or the fixed text
\* and never a raw message.
C9_Reports ==
    /\ Len(reports) = Len(events.rejected)
    /\ \A i \in 1..Len(reports) :
          reports[i] = [label |-> "Error fetching statistics", error |-> events.rejected[i]]
    /\ error \in {Null, Str("Unable to load statistics. Please try again later.")}
    /\ \A m \in RawMessages : error # Str(m)

C9_Witness ==
    /\ Len(events.rejected) >= 2
    /\ events.rejected[1] # events.rejected[2]
    /\ events.resolved > 0
    /\ Truthy(error)

\* C10 (as stated): at most one request is in flight at any time.
C10_SingleFlight == Cardinality(inFlight) <= 1

====
